---------------------------- MODULE Spec2Model ----------------------------
(***************************************************************************)
(* Model of static/app.js, the browser client of the face approval kiosk,  *)
(* together with the backend state its requests act on.                    *)
(*                                                                         *)
(* The client is a set of event handlers over three globals (videoStream,  *)
(* capturedFaceData, currentSessionId) and the DOM's visibility flags.     *)
(* An async handler is cut at each await: the part up to the await is one  *)
(* action, and the suspended rest is a record in `tasks`.  A task whose    *)
(* await is a fetch is first "sent" (the backend has not seen it), then    *)
(* answered ("ok", "fail", "err") or thrown ("throw"); the backend takes   *)
(* sent requests in any order and the client resumes answered tasks in any *)
(* order.  fetch resolving and response.json() resolving are one step      *)
(* where the handler does nothing in between.                              *)
(*                                                                         *)
(* The backend (pending capture, admin flag, sessions) is not in static/   *)
(* and is modelled from the specification's sections 3, 4 and 6.  The TTL  *)
(* of the pending capture is not modelled: runs are shorter than the TTL.  *)
(*                                                                         *)
(* The page's HTML is not in static/ either.  A button can be clicked when *)
(* the section the flow places it in is visible; the nav buttons always.   *)
(***************************************************************************)
EXTENDS Naturals, FiniteSets, Bags

\* ------------------------------------------------------------------ bounds
MaxTasks    == 2   \* a click is taken while fewer tasks than this are outstanding
MaxCaptures == 2   \* clicks on captureBtn in one run
MaxSessions == 2   \* sessions the backend opens in one run

\* --------------------------------------------------------------- constants
Null == 0          \* JavaScript null in videoStream, capturedFaceData, currentSessionId

mainSections ==
    { "introSection", "faceSection", "cameraSection", "addInfoSection",
      "approveCameraSection", "sessionSection", "adminLoginSection",
      "adminPanelSection" }

VARIABLES
    loaded,            \* the window's load event has fired
    visible,           \* the one section of mainSections without class hidden
    videoStream,       \* Null, or 1: a live MediaStream
    leaked,            \* some live MediaStream is referenced by nothing
    capturedFaceData,  \* Null, or the number of the capture it holds
    currentSessionId,  \* Null, or a session id
    cam,               \* cameraSection's widgets: preview, video, captureBtn, cancelCameraBtn
    form,              \* addInfoSection's widgets: addInfoForm, addInfoSuccess
    tasks,             \* bag of suspended handlers and requests in flight
    nextCapture,       \* number of the next capture
    pending,           \* backend: the Pending-Capture (Null or a capture number)
    adminAuth,         \* backend: the admin flag
    sessOpen,          \* backend: ids of Open sessions
    nextSession,       \* backend: the next fresh session id
    kept,              \* history: the capture accepted by the backend and not given up since
    acked,             \* history: session ids whose end-session the client saw succeed
    registered,        \* history: bag of the captures a register-entry answered success for
    everAuth           \* history: a login has set the admin flag

vars == << loaded, visible, videoStream, leaked, capturedFaceData, currentSessionId,
           cam, form, tasks, nextCapture, pending, adminAuth, sessOpen, nextSession,
           kept, acked, registered, everAuth >>

\* ------------------------------------------------------------ client state
\* The client's mutable state as one record, so that helpers compose as in the code.
Client ==
    [ visible |-> visible, videoStream |-> videoStream, leaked |-> leaked,
      capturedFaceData |-> capturedFaceData, currentSessionId |-> currentSessionId,
      cam |-> cam, form |-> form, tasks |-> tasks ]

SetClient(c) ==
    /\ visible' = c.visible
    /\ videoStream' = c.videoStream
    /\ leaked' = c.leaked
    /\ capturedFaceData' = c.capturedFaceData
    /\ currentSessionId' = c.currentSessionId
    /\ cam' = c.cam
    /\ form' = c.form
    /\ tasks' = c.tasks

Task(pc, st, arg) == [ pc |-> pc, st |-> st, arg |-> arg ]

Spawn(c, pc, arg) == [ c EXCEPT !.tasks = @ (+) SetToBag({ Task(pc, "sent", arg) }) ]

Drop(c, t) == [ c EXCEPT !.tasks = @ (-) SetToBag({ t }) ]

CameraView == [ preview |-> FALSE, video |-> TRUE, captureBtn |-> TRUE, cancelBtn |-> TRUE ]
PreviewView == [ preview |-> TRUE, video |-> FALSE, captureBtn |-> FALSE, cancelBtn |-> FALSE ]
FormView == [ addInfoForm |-> TRUE, addInfoSuccess |-> FALSE ]
SuccessView == [ addInfoForm |-> FALSE, addInfoSuccess |-> TRUE ]

\* ----------------------------------------------------------------- helpers
\* clearFaceData() called without await: the request is sent and nothing waits for it.
clearFaceData(c) == Spawn(c, "clearFaceData", 0)

\* Mutant of adminLogout: the request is not sent.
adminLogout_Mut(c) == c

\* adminLogout() is never awaited.
adminLogout(c) == Spawn(c, "adminLogout", 0)

stopCamera(c) ==
    IF c.videoStream # Null THEN [ c EXCEPT !.videoStream = Null ] ELSE c

\* Mutant of KeepsFace: faceSection is taken for a section that keeps the face.
KeepsFace_Mut(sectionId) ==
    sectionId \in { "cameraSection", "approveCameraSection", "addInfoSection",
                    "faceSection" }

KeepsFace(sectionId) ==
    sectionId \in { "cameraSection", "approveCameraSection", "addInfoSection" }

\* Mutant of LeavesAdmin: only the way back to the login form counts as leaving.
LeavesAdmin_Mut(currentSection, sectionId) ==
    currentSection = "adminPanelSection" /\ sectionId = "adminLoginSection"

LeavesAdmin(currentSection, sectionId) ==
    currentSection = "adminPanelSection" /\ sectionId # "adminPanelSection"

showSection(c0, sectionId) ==
    LET c1 == stopCamera(c0)
        currentSection == c1.visible
        c2 == IF ~KeepsFace(sectionId)
                THEN [ clearFaceData(c1) EXCEPT !.capturedFaceData = Null ]
                ELSE c1
        c3 == IF LeavesAdmin(currentSection, sectionId) THEN adminLogout(c2) ELSE c2
        c4 == [ c3 EXCEPT !.visible = sectionId ]
        c5 == IF sectionId = "addInfoSection" THEN [ c4 EXCEPT !.form = FormView ] ELSE c4
    IN  IF sectionId = "cameraSection" THEN [ c5 EXCEPT !.cam = CameraView ] ELSE c5

\* ------------------------------------------------------------------- Init
Init ==
    /\ loaded = FALSE
    /\ visible = "introSection"
    /\ videoStream = Null
    /\ leaked = FALSE
    /\ capturedFaceData = Null
    /\ currentSessionId = Null
    /\ cam = CameraView
    /\ form = FormView
    /\ tasks = EmptyBag
    /\ nextCapture = 1
    /\ pending = Null
    /\ adminAuth = FALSE
    /\ sessOpen = {}
    /\ nextSession = 1
    /\ kept = Null
    /\ acked = {}
    /\ registered = EmptyBag
    /\ everAuth = FALSE

Server == << pending, adminAuth, sessOpen, nextSession >>
History == << kept, acked, registered, everAuth >>

\* A click starts a handler only while fewer than MaxTasks tasks are outstanding.
Click(c) ==
    /\ loaded
    /\ BagCardinality(tasks) < MaxTasks
    /\ SetClient(c)

\* The capture is given up: the user cancelled, retook, navigated away or registered.
GiveUp == kept' = Null

\* kept follows capturedFaceData: it names a capture only while the client still holds it
\* and a section of the registration flow is visible.
Keep ==
    kept' = IF kept # Null /\ capturedFaceData' = kept
               /\ visible' \in { "cameraSection", "addInfoSection" }
            THEN kept ELSE Null

\* ------------------------------------------------------------- page load
Load ==
    /\ ~loaded
    /\ loaded' = TRUE
    /\ SetClient(clearFaceData(Client))
    /\ UNCHANGED << nextCapture, Server, History >>

\* -------------------------------------------------------------- navigation
NavTarget(btn) ==
    CASE btn = "nav-intro" -> "introSection"
      [] btn = "nav-face" -> "faceSection"
      [] btn = "nav-admin" -> "adminLoginSection"
      [] btn = "faceRecogniseBtn" -> "faceSection"

NavButtons == { "nav-intro", "nav-face", "nav-admin", "faceRecogniseBtn" }

navHandler(c, btn) ==
    showSection([ clearFaceData(c) EXCEPT !.capturedFaceData = Null ], NavTarget(btn))

NavClick(btn) ==
    /\ btn = "faceRecogniseBtn" => visible = "introSection"
    /\ Click(navHandler(Client, btn))
    /\ GiveUp
    /\ UNCHANGED << loaded, nextCapture, Server, acked, registered, everAuth >>


\* ------------------------------------------------------- registration flow
Answered(t, pc) == t \in BagToSet(tasks) /\ t.pc = pc /\ t.st # "sent"

AddEntryClick ==
    /\ visible = "faceSection"
    /\ Click(Spawn(Client, "addEntry_clear", 0))
    /\ Keep
    /\ UNCHANGED << loaded, nextCapture, Server, acked, registered, everAuth >>

\* addEntryBtn after `await clearFaceData()`, up to `await getUserMedia(...)`.
addEntryAfterClear(c, t) ==
    Spawn(showSection([ Drop(c, t) EXCEPT !.capturedFaceData = Null ], "cameraSection"),
          "addEntry_gum", 0)

AddEntryCleared(t) ==
    /\ Answered(t, "addEntry_clear")
    /\ SetClient(addEntryAfterClear(Client, t))
    /\ GiveUp
    /\ UNCHANGED << loaded, nextCapture, Server, acked, registered, everAuth >>

\* `videoStream = await getUserMedia(...)`: the stream videoStream referenced before
\* stays live and is no longer referenced.
assignStream(c) ==
    [ c EXCEPT !.leaked = @ \/ c.videoStream # Null, !.videoStream = 1 ]

GumTasks == { "addEntry_gum", "approveFace_gum" }
PlayOf(pc) == IF pc = "addEntry_gum" THEN "addEntry_play" ELSE "approveFace_play"

\* getUserMedia resolves: srcObject is set and `await video.play()` starts.
GumResolved(t) ==
    /\ t \in BagToSet(tasks) /\ t.pc \in GumTasks
    /\ SetClient(Spawn(assignStream(Drop(Client, t)), PlayOf(t.pc), 0))
    /\ Keep
    /\ UNCHANGED << loaded, nextCapture, Server, acked, registered, everAuth >>

\* getUserMedia or video.play() rejects: the catch block shows faceSection.
cameraError(c, t) == showSection(Drop(c, t), "faceSection")

CameraRejected(t) ==
    /\ t \in BagToSet(tasks)
    /\ t.pc \in GumTasks \cup { "addEntry_play", "approveFace_play" }
    /\ SetClient(cameraError(Client, t))
    /\ GiveUp
    /\ UNCHANGED << loaded, nextCapture, Server, acked, registered, everAuth >>

PlayResolved(t) ==
    /\ t \in BagToSet(tasks) /\ t.pc \in { "addEntry_play", "approveFace_play" }
    /\ SetClient(Drop(Client, t))
    /\ Keep
    /\ UNCHANGED << loaded, nextCapture, Server, acked, registered, everAuth >>

cancelCamera(c) ==
    showSection([ clearFaceData(stopCamera(c)) EXCEPT !.capturedFaceData = Null ],
                "faceSection")

CancelCameraClick ==
    /\ visible = "cameraSection" /\ cam.cancelBtn
    /\ Click(cancelCamera(Client))
    /\ GiveUp
    /\ UNCHANGED << loaded, nextCapture, Server, acked, registered, everAuth >>

\* captureBtn up to `await fetch('/api/capture-face')`.
capture(c, n) ==
    Spawn([ c EXCEPT !.capturedFaceData = n, !.cam = PreviewView ], "capture_fetch", n)

CaptureClick ==
    /\ visible = "cameraSection" /\ cam.captureBtn
    /\ nextCapture <= MaxCaptures
    /\ Click(capture(Client, nextCapture))
    /\ nextCapture' = nextCapture + 1
    /\ GiveUp
    /\ UNCHANGED << loaded, Server, acked, registered, everAuth >>

\* retakeBtn up to `await clearFaceData()`.
retake(c) == Spawn(c, "retake_clear", 0)

\* Mutant of captureAfterFetch: a rejected face stays in capturedFaceData.
captureAfterFetch_Mut(c, t) ==
    IF t.st = "ok" THEN Drop(c, t) ELSE retake(Drop(c, t))

\* captureBtn after the fetch: on anything but success the face is dropped and
\* retakeBtn.click() runs the retake handler up to its await.
captureAfterFetch(c, t) ==
    IF t.st = "ok" THEN Drop(c, t)
    ELSE retake([ Drop(c, t) EXCEPT !.capturedFaceData = Null ])

CaptureAnswered(t) ==
    /\ Answered(t, "capture_fetch")
    /\ SetClient(captureAfterFetch(Client, t))
    /\ kept' = IF t.st = "ok"
               THEN IF capturedFaceData = t.arg
                       /\ visible \in { "cameraSection", "addInfoSection" }
                    THEN t.arg ELSE kept
               ELSE Null
    /\ UNCHANGED << loaded, nextCapture, Server, acked, registered, everAuth >>

RetakeClick ==
    /\ visible = "cameraSection" /\ cam.preview
    /\ Click(retake(Client))
    /\ GiveUp
    /\ UNCHANGED << loaded, nextCapture, Server, acked, registered, everAuth >>

retakeAfterClear(c, t) ==
    [ Drop(c, t) EXCEPT !.cam = CameraView, !.capturedFaceData = Null ]

RetakeCleared(t) ==
    /\ Answered(t, "retake_clear")
    /\ SetClient(retakeAfterClear(Client, t))
    /\ GiveUp
    /\ UNCHANGED << loaded, nextCapture, Server, acked, registered, everAuth >>

\* Mutant of proceedToInfo: the form is opened through showSection('faceSection')'s
\* clearing branch, as before the handler was fixed.
proceedToInfo_Mut(c) ==
    IF c.capturedFaceData = Null THEN c
    ELSE [ clearFaceData(stopCamera(c)) EXCEPT
             !.capturedFaceData = Null, !.visible = "addInfoSection", !.form = FormView ]

proceedToInfo(c) ==
    IF c.capturedFaceData = Null THEN c
    ELSE [ stopCamera(c) EXCEPT !.visible = "addInfoSection", !.form = FormView ]

ProceedToInfoClick ==
    /\ visible = "cameraSection" /\ cam.preview
    /\ Click(proceedToInfo(Client))
    /\ Keep
    /\ UNCHANGED << loaded, nextCapture, Server, acked, registered, everAuth >>

RegisterSubmit ==
    /\ visible = "addInfoSection" /\ form.addInfoForm
    /\ Click(Spawn(Client, "register_fetch", 0))
    /\ GiveUp
    /\ UNCHANGED << loaded, nextCapture, Server, acked, registered, everAuth >>

registerAfterFetch(c, t) ==
    IF t.st = "ok"
    THEN [ Drop(c, t) EXCEPT !.form = SuccessView, !.capturedFaceData = Null ]
    ELSE Drop(c, t)

RegisterAnswered(t) ==
    /\ Answered(t, "register_fetch")
    /\ SetClient(registerAfterFetch(Client, t))
    /\ GiveUp
    /\ UNCHANGED << loaded, nextCapture, Server, acked, registered, everAuth >>

handlePostRegistration(c) ==
    showSection([ clearFaceData(c) EXCEPT !.capturedFaceData = Null ], "faceSection")

PostRegistrationClick ==
    /\ visible = "addInfoSection" /\ form.addInfoSuccess
    /\ Click(handlePostRegistration(Client))
    /\ GiveUp
    /\ UNCHANGED << loaded, nextCapture, Server, acked, registered, everAuth >>

\* ----------------------------------------------------------- approval flow
ApproveFaceClick ==
    /\ visible = "faceSection"
    /\ Click(Spawn(Client, "approveFace_clear", 0))
    /\ Keep
    /\ UNCHANGED << loaded, nextCapture, Server, acked, registered, everAuth >>

approveFaceAfterClear(c, t) ==
    Spawn(showSection(Drop(c, t), "approveCameraSection"), "approveFace_gum", 0)

ApproveFaceCleared(t) ==
    /\ Answered(t, "approveFace_clear")
    /\ SetClient(approveFaceAfterClear(Client, t))
    /\ GiveUp
    /\ UNCHANGED << loaded, nextCapture, Server, acked, registered, everAuth >>

cancelApprove(c) == showSection(clearFaceData(stopCamera(c)), "faceSection")

CancelApproveClick ==
    /\ visible = "approveCameraSection"
    /\ Click(cancelApprove(Client))
    /\ GiveUp
    /\ UNCHANGED << loaded, nextCapture, Server, acked, registered, everAuth >>

ApproveCaptureClick ==
    /\ visible = "approveCameraSection"
    /\ Click(Spawn(Client, "approve_fetch", 0))
    /\ Keep
    /\ UNCHANGED << loaded, nextCapture, Server, acked, registered, everAuth >>

\* approveCaptureBtn when fetch settles: a thrown fetch goes to the catch block's
\* `await clearFaceData()`; a response stops the camera and awaits response.json().
approveAfterFetch(c, t) ==
    IF t.st = "throw"
    THEN Spawn(Drop(c, t), "approve_clear_fail", 0)
    ELSE [ stopCamera(Drop(c, t)) EXCEPT
             !.tasks = @ (+) SetToBag({ Task("approve_json", t.st, t.arg) }) ]

ApproveAnswered(t) ==
    /\ Answered(t, "approve_fetch")
    /\ SetClient(approveAfterFetch(Client, t))
    /\ Keep
    /\ UNCHANGED << loaded, nextCapture, Server, acked, registered, everAuth >>

\* approveCaptureBtn when response.json() settles, up to `await clearFaceData()`.
approveAfterJson(c, t) ==
    IF t.st = "ok"
    THEN Spawn([ Drop(c, t) EXCEPT !.currentSessionId = t.arg ], "approve_clear_ok", 0)
    ELSE Spawn(Drop(c, t), "approve_clear_fail", 0)

ApproveParsed(t) ==
    /\ t \in BagToSet(tasks) /\ t.pc = "approve_json"
    /\ SetClient(approveAfterJson(Client, t))
    /\ Keep
    /\ UNCHANGED << loaded, nextCapture, Server, acked, registered, everAuth >>

\* Mutant of ApproveShown: the failure paths show sessionSection too.
ApproveShown_Mut(pc) == "sessionSection"

ApproveShown(pc) == IF pc = "approve_clear_ok" THEN "sessionSection" ELSE "faceSection"

approveAfterClear(c, t) == showSection(Drop(c, t), ApproveShown(t.pc))

ApproveCleared(t) ==
    /\ t \in BagToSet(tasks) /\ t.pc \in { "approve_clear_ok", "approve_clear_fail" }
    /\ t.st # "sent"
    /\ SetClient(approveAfterClear(Client, t))
    /\ GiveUp
    /\ UNCHANGED << loaded, nextCapture, Server, acked, registered, everAuth >>

\* ------------------------------------------------------ session management
\* endSessionBtn up to the fetch; confirmed is the user's answer to confirm().
endSession(c, confirmed) ==
    IF c.currentSessionId = Null \/ ~confirmed THEN c
    ELSE Spawn(c, "end_fetch", c.currentSessionId)

EndSessionClick(confirmed) ==
    /\ visible = "sessionSection"
    /\ Click(endSession(Client, confirmed))
    /\ Keep
    /\ UNCHANGED << loaded, nextCapture, Server, acked, registered, everAuth >>

\* Mutant of endAfterFetch: success:false is taken for success.
endAfterFetch_Mut(c, t) ==
    IF t.st \in { "ok", "fail" }
    THEN showSection([ Drop(c, t) EXCEPT !.currentSessionId = Null ], "introSection")
    ELSE Drop(c, t)

endAfterFetch(c, t) ==
    IF t.st = "ok"
    THEN showSection([ Drop(c, t) EXCEPT !.currentSessionId = Null ], "introSection")
    ELSE Drop(c, t)

EndAnswered(t) ==
    /\ Answered(t, "end_fetch")
    /\ SetClient(endAfterFetch(Client, t))
    /\ acked' = IF t.st = "ok" THEN acked \cup { t.arg } ELSE acked
    /\ Keep
    /\ UNCHANGED << loaded, nextCapture, Server, registered, everAuth >>


\* ------------------------------------------------------------- admin panel
LoginSubmit ==
    /\ visible = "adminLoginSection"
    /\ Click(Spawn(Client, "login_fetch", 0))
    /\ Keep
    /\ UNCHANGED << loaded, nextCapture, Server, acked, registered, everAuth >>

\* loadAdminData up to its first fetch; awaited = 1 when the login handler awaits it.
loadAdminData(c, awaited) == Spawn(c, "load_users", awaited)

\* Mutant of loginAfterFetch: data.success is not tested.
loginAfterFetch_Mut(c, t) ==
    IF t.st \in { "ok", "fail" } THEN loadAdminData(Drop(c, t), 1) ELSE Drop(c, t)

\* adminLoginForm after the fetch: only an OK response with success goes on.
loginAfterFetch(c, t) ==
    IF t.st = "ok" THEN loadAdminData(Drop(c, t), 1) ELSE Drop(c, t)

LoginAnswered(t) ==
    /\ Answered(t, "login_fetch")
    /\ SetClient(loginAfterFetch(Client, t))
    /\ Keep
    /\ UNCHANGED << loaded, nextCapture, Server, acked, registered, everAuth >>

\* What follows loadAdminData, whose catch block swallows every failure.
afterLoad(c, awaited) == IF awaited = 1 THEN showSection(c, "adminPanelSection") ELSE c

loadAfterUsers(c, t) ==
    IF t.st = "ok" THEN Spawn(Drop(c, t), "load_logs", t.arg)
    ELSE afterLoad(Drop(c, t), t.arg)

LoadUsersAnswered(t) ==
    /\ Answered(t, "load_users")
    /\ SetClient(loadAfterUsers(Client, t))
    /\ Keep
    /\ UNCHANGED << loaded, nextCapture, Server, acked, registered, everAuth >>

loadAfterLogs(c, t) == afterLoad(Drop(c, t), t.arg)

LoadLogsAnswered(t) ==
    /\ Answered(t, "load_logs")
    /\ SetClient(loadAfterLogs(Client, t))
    /\ Keep
    /\ UNCHANGED << loaded, nextCapture, Server, acked, registered, everAuth >>

logoutAdmin(c, confirmed) ==
    IF confirmed THEN showSection(adminLogout(c), "adminLoginSection") ELSE c

LogoutAdminClick(confirmed) ==
    /\ visible = "adminPanelSection"
    /\ Click(logoutAdmin(Client, confirmed))
    /\ Keep
    /\ UNCHANGED << loaded, nextCapture, Server, acked, registered, everAuth >>

EditUserSubmit ==
    /\ visible = "adminPanelSection"
    /\ Click(Spawn(Client, "edit_fetch", 0))
    /\ Keep
    /\ UNCHANGED << loaded, nextCapture, Server, acked, registered, everAuth >>

editAfterFetch(c, t) ==
    IF t.st = "ok" THEN loadAdminData(Drop(c, t), 0) ELSE Drop(c, t)

EditAnswered(t) ==
    /\ Answered(t, "edit_fetch")
    /\ SetClient(editAfterFetch(Client, t))
    /\ Keep
    /\ UNCHANGED << loaded, nextCapture, Server, acked, registered, everAuth >>

deleteUser(c, confirmed) == IF confirmed THEN Spawn(c, "delete_fetch", 0) ELSE c

DeleteUserClick(confirmed) ==
    /\ visible = "adminPanelSection"
    /\ Click(deleteUser(Client, confirmed))
    /\ Keep
    /\ UNCHANGED << loaded, nextCapture, Server, acked, registered, everAuth >>

deleteAfterFetch(c, t) ==
    IF t.st = "ok" THEN Spawn(Drop(c, t), "delete_clear", 0) ELSE Drop(c, t)

DeleteAnswered(t) ==
    /\ Answered(t, "delete_fetch")
    /\ SetClient(deleteAfterFetch(Client, t))
    /\ Keep
    /\ UNCHANGED << loaded, nextCapture, Server, acked, registered, everAuth >>

deleteAfterClear(c, t) == loadAdminData(Drop(c, t), 0)

DeleteCleared(t) ==
    /\ Answered(t, "delete_clear")
    /\ SetClient(deleteAfterClear(Client, t))
    /\ Keep
    /\ UNCHANGED << loaded, nextCapture, Server, acked, registered, everAuth >>

\* ----------------------------------------------------------- page lifecycle
\* visibilitychange with document.hidden.
TabHidden ==
    /\ loaded
    /\ videoStream # Null
    /\ SetClient(stopCamera(Client))
    /\ Keep
    /\ UNCHANGED << loaded, nextCapture, Server, acked, registered, everAuth >>

\* ------------------------------------------------------------------ backend
ClearPcs ==
    { "clearFaceData", "addEntry_clear", "retake_clear", "approveFace_clear",
      "approve_clear_ok", "approve_clear_fail", "delete_clear" }

\* Requests nothing in the client waits for: once the backend has them they are gone.
Unawaited == { "clearFaceData", "adminLogout" }

FetchPcs ==
    ClearPcs \cup { "adminLogout", "capture_fetch", "register_fetch", "approve_fetch",
                    "end_fetch", "login_fetch", "load_users", "load_logs",
                    "edit_fetch", "delete_fetch" }

Sent(t) == t \in BagToSet(tasks) /\ t.pc \in FetchPcs /\ t.st = "sent"

\* The task after the backend answered st (carrying arg), or after the answer was lost.
Reply(t, st, arg) ==
    IF t.pc \in Unawaited THEN tasks (-) SetToBag({ t })
    ELSE (tasks (-) SetToBag({ t })) (+) SetToBag({ Task(t.pc, st, arg) })

\* The transport: the answer reaches the client, or (on a lossy network) fetch throws
\* after the backend acted.
Delivered(net, st) == IF net = "lossy" THEN { st, "throw" } ELSE { st }

\* POST /api/clear-face and Pending-Capture clear(): always succeeds.
ServeClear(t, net) ==
    /\ Sent(t) /\ t.pc \in ClearPcs
    /\ pending' = Null
    /\ \E st \in Delivered(net, "ok") : tasks' = Reply(t, st, t.arg)
    /\ UNCHANGED << adminAuth, sessOpen, nextSession >>

\* POST /api/admin-logout and Admin Authority logout(): unconditional.
ServeLogout(t) ==
    /\ Sent(t) /\ t.pc = "adminLogout"
    /\ adminAuth' = FALSE
    /\ tasks' = Reply(t, "ok", t.arg)
    /\ UNCHANGED << pending, sessOpen, nextSession >>

\* POST /api/capture-face: on success the embedding becomes the Pending-Capture
\* (set() overwrites); no face, several faces or a bad image leave it alone.
ServeCapture(t, net) ==
    /\ Sent(t) /\ t.pc = "capture_fetch"
    /\ \E r \in { "ok", "fail", "err" } :
          /\ pending' = IF r = "ok" THEN t.arg ELSE pending
          /\ \E st \in Delivered(net, r) : tasks' = Reply(t, st, t.arg)
    /\ UNCHANGED << adminAuth, sessOpen, nextSession >>

\* Mutant of consume: the read does not clear.
consume_Mut(p) == [ value |-> p, left |-> p ]

\* Pending-Capture consume(): reads and clears in one step.
consume(p) == [ value |-> p, left |-> Null ]

\* POST /api/register-entry: consumes the Pending-Capture; without one, or with a
\* duplicate name, it fails.
ServeRegister(t, net) ==
    /\ Sent(t) /\ t.pc = "register_fetch"
    /\ \E r \in { "ok", "fail", "err" } :
          /\ r = "ok" => consume(pending).value # Null
          /\ pending' = consume(pending).left
          /\ registered' = IF r = "ok" THEN registered (+) SetToBag({ consume(pending).value })
                           ELSE registered
          /\ \E st \in Delivered(net, r) : tasks' = Reply(t, st, t.arg)
    /\ UNCHANGED << adminAuth, sessOpen, nextSession >>

\* POST /api/approve-face: a match opens a session under a fresh id.
ServeApprove(t, net) ==
    /\ Sent(t) /\ t.pc = "approve_fetch"
    /\ \E r \in { "ok", "fail", "err" } :
          /\ r = "ok" => nextSession <= MaxSessions
          /\ sessOpen' = IF r = "ok" THEN sessOpen \cup { nextSession } ELSE sessOpen
          /\ nextSession' = IF r = "ok" THEN nextSession + 1 ELSE nextSession
          /\ \E st \in Delivered(net, r) :
                tasks' = Reply(t, st, IF r = "ok" THEN nextSession ELSE t.arg)
    /\ UNCHANGED << pending, adminAuth >>

\* Session Registry close(): Open -> Closed, once.
close(open, id) == open \ { id }

\* POST /api/end-session: succeeds for an Open session only.
ServeEnd(t, net) ==
    /\ Sent(t) /\ t.pc = "end_fetch"
    /\ \E r \in { "ok", "fail", "err" } :
          /\ r = "ok" <=> t.arg \in sessOpen
          /\ sessOpen' = close(sessOpen, t.arg)
          /\ \E st \in Delivered(net, r) : tasks' = Reply(t, st, t.arg)
    /\ UNCHANGED << pending, adminAuth, nextSession >>

\* POST /api/admin/login and Admin Authority login(): valid credentials set the flag.
ServeLogin(t, net) ==
    /\ Sent(t) /\ t.pc = "login_fetch"
    /\ \E r \in { "ok", "fail", "err" } :
          /\ adminAuth' = IF r = "ok" THEN TRUE ELSE adminAuth
          /\ \E st \in Delivered(net, r) : tasks' = Reply(t, st, t.arg)
    /\ UNCHANGED << pending, sessOpen, nextSession >>

AdminPcs == { "load_users", "load_logs", "edit_fetch", "delete_fetch" }

\* Admin Authority requireAuth(): the guard of every admin-only endpoint.
requireAuth(auth) == auth

\* GET /api/admin/users, GET /api/admin/logs, PUT and DELETE /api/admin/user.
ServeAdmin(t, net) ==
    /\ Sent(t) /\ t.pc \in AdminPcs
    /\ \E r \in { "ok", "fail", "err" } :
          /\ r = "err" <=> ~requireAuth(adminAuth)
          /\ r = "fail" => t.pc \in { "edit_fetch", "delete_fetch" }
          /\ \E st \in Delivered(net, r) : tasks' = Reply(t, st, t.arg)
    /\ UNCHANGED << pending, adminAuth, sessOpen, nextSession >>

\* fetch throws and the backend never saw the request.
RequestLost(t) ==
    /\ Sent(t)
    /\ tasks' = Reply(t, "throw", t.arg)
    /\ UNCHANGED << pending, adminAuth, sessOpen, nextSession >>

ClientRest == << loaded, visible, videoStream, leaked, capturedFaceData,
                 currentSessionId, cam, form, nextCapture >>

Backend(t, net) ==
    /\ \/ ServeClear(t, net) /\ UNCHANGED << registered, everAuth >>
       \/ ServeLogout(t) /\ UNCHANGED << registered, everAuth >>
       \/ ServeCapture(t, net) /\ UNCHANGED << registered, everAuth >>
       \/ ServeRegister(t, net) /\ UNCHANGED everAuth
       \/ ServeApprove(t, net) /\ UNCHANGED << registered, everAuth >>
       \/ ServeEnd(t, net) /\ UNCHANGED << registered, everAuth >>
       \/ ServeLogin(t, net) /\ UNCHANGED registered /\ everAuth' = (everAuth \/ adminAuth')
       \/ ServeAdmin(t, net) /\ UNCHANGED << registered, everAuth >>
    /\ UNCHANGED << ClientRest, kept, acked >>

Lost(t) == RequestLost(t) /\ UNCHANGED << ClientRest, History >>

\* ------------------------------------------------------------------- Next
Confirm == { TRUE, FALSE }

TaskSet == BagToSet(tasks)

\* The page load, the nav bar and the intro page's button.
NextPage ==
    \/ Load
    \/ \E btn \in NavButtons : NavClick(btn)

\* The camera of the registration and of the approval flow.
NextCamera ==
    \/ \E t \in TaskSet : GumResolved(t)
    \/ \E t \in TaskSet : CameraRejected(t)
    \/ \E t \in TaskSet : PlayResolved(t)
    \/ TabHidden

NextRegistration ==
    \/ AddEntryClick
    \/ \E t \in TaskSet : AddEntryCleared(t)
    \/ CancelCameraClick
    \/ CaptureClick
    \/ \E t \in TaskSet : CaptureAnswered(t)
    \/ RetakeClick
    \/ \E t \in TaskSet : RetakeCleared(t)
    \/ ProceedToInfoClick
    \/ RegisterSubmit
    \/ \E t \in TaskSet : RegisterAnswered(t)
    \/ PostRegistrationClick

NextApproval ==
    \/ ApproveFaceClick
    \/ \E t \in TaskSet : ApproveFaceCleared(t)
    \/ CancelApproveClick
    \/ ApproveCaptureClick
    \/ \E t \in TaskSet : ApproveAnswered(t)
    \/ \E t \in TaskSet : ApproveParsed(t)
    \/ \E t \in TaskSet : ApproveCleared(t)
    \/ \E confirmed \in Confirm : EndSessionClick(confirmed)
    \/ \E t \in TaskSet : EndAnswered(t)

NextAdminPanel ==
    \/ LoginSubmit
    \/ \E t \in TaskSet : LoginAnswered(t)
    \/ \E t \in TaskSet : LoadUsersAnswered(t)
    \/ \E t \in TaskSet : LoadLogsAnswered(t)
    \/ \E confirmed \in Confirm : LogoutAdminClick(confirmed)
    \/ EditUserSubmit
    \/ \E t \in TaskSet : EditAnswered(t)
    \/ \E confirmed \in Confirm : DeleteUserClick(confirmed)
    \/ \E t \in TaskSet : DeleteAnswered(t)
    \/ \E t \in TaskSet : DeleteCleared(t)

NextNetwork ==
    \/ \E t \in TaskSet : Backend(t, "lossy")
    \/ \E t \in TaskSet : Lost(t)

\* The whole program.
Next ==
    NextPage \/ NextCamera \/ NextRegistration \/ NextApproval \/ NextAdminPanel
    \/ NextNetwork

Spec == Init /\ [][Next]_vars

\* The program used for one flow at a time: the page, the network and one flow's
\* handlers.  Each is a set of behaviours of Spec.
NextReg == NextPage \/ NextCamera \/ NextRegistration \/ NextNetwork
SpecReg == Init /\ [][NextReg]_vars

NextSession == NextPage \/ NextCamera \/ NextApproval \/ NextNetwork
SpecSession == Init /\ [][NextSession]_vars

NextAdmin == NextPage \/ NextAdminPanel \/ NextNetwork
SpecAdmin == Init /\ [][NextAdmin]_vars

\* The admin flow on a network where every request is delivered and answered.
NextAdminReliable ==
    \/ NextPage
    \/ NextAdminPanel
    \/ \E t \in TaskSet : Backend(t, "reliable")
SpecAdminReliable == Init /\ [][NextAdminReliable]_vars

\* The approval and session flow on such a network.
NextSessionReliable ==
    \/ NextPage
    \/ NextCamera
    \/ NextApproval
    \/ \E t \in TaskSet : Backend(t, "reliable")
SpecSessionReliable == Init /\ [][NextSessionReliable]_vars

\* The whole program on such a network.
NextReliable ==
    \/ NextPage \/ NextCamera \/ NextRegistration \/ NextApproval \/ NextAdminPanel
    \/ \E t \in TaskSet : Backend(t, "reliable")
SpecReliable == Init /\ [][NextReliable]_vars


\* -------------------------------------------------------------- properties
\* Requests of one kind the backend has not yet seen, in a bag of tasks.
InFlight(b, pc, arg) == CopiesIn(Task(pc, "sent", arg), b)

ClearsInFlight(b) == InFlight(b, "clearFaceData", 0)
LogoutsInFlight(b) == InFlight(b, "adminLogout", 0)

Quiescent == tasks = EmptyBag

\* C1: while the backend has accepted the capture the client holds and the user has
\* not cancelled, retaken, navigated away or registered since, the backend's
\* Pending-Capture is that capture.
C1_PendingCaptureKept == kept # Null => pending = kept

\* C2: showSection(s) with s outside the registration and camera sections, and every
\* click on a nav button, faceRecogniseBtn, cancelCameraBtn or cancelApproveBtn,
\* sends a clear-face request and leaves capturedFaceData null; a click on retakeBtn
\* sends a clear-face request and capturedFaceData is null when its handler ends.
C2_Handlers(c) ==
    { navHandler(c, btn) : btn \in NavButtons }
    \cup { cancelCamera(c), cancelApprove(c) }
    \cup { showSection(c, s) : s \in { x \in mainSections : ~KeepsFace(x) } }

C2_ClearedOnLeave ==
    /\ \A c \in C2_Handlers(Client) :
          /\ ClearsInFlight(c.tasks) >= ClearsInFlight(tasks) + 1
          /\ c.capturedFaceData = Null
    /\ InFlight(retake(Client).tasks, "retake_clear", 0)
          = InFlight(tasks, "retake_clear", 0) + 1
    /\ \A t \in TaskSet : t.pc = "retake_clear" /\ t.st # "sent" =>
          retakeAfterClear(Client, t).capturedFaceData = Null

\* The user navigated away from a captured face: the preview is still up, faceSection
\* is shown, capturedFaceData is null and the clear-face requests are in flight.
C2_Witness ==
    /\ visible = "faceSection" /\ cam.preview /\ nextCapture > 1
    /\ capturedFaceData = Null
    /\ ClearsInFlight(tasks) >= 2

\* C3: the approval handler sets currentSessionId to the returned session_id and shows
\* sessionSection exactly on an OK response with success:true; on success:false, a
\* non-OK status or a thrown fetch it shows faceSection and leaves currentSessionId
\* alone; on every path it sends a clear-face request, and the camera is stopped when
\* it ends.
C3_Step(t) ==
    /\ ApproveAnswered(t) =>
          /\ currentSessionId' = currentSessionId
          /\ visible' = visible
          /\ t.st = "throw" => InFlight(tasks', "approve_clear_fail", 0)
                                 = InFlight(tasks, "approve_clear_fail", 0) + 1
          /\ t.st # "throw" => videoStream' = Null
    /\ ApproveParsed(t) =>
          /\ visible' = visible
          /\ IF t.st = "ok"
             THEN /\ currentSessionId' = t.arg
                  /\ InFlight(tasks', "approve_clear_ok", 0)
                       = InFlight(tasks, "approve_clear_ok", 0) + 1
             ELSE /\ currentSessionId' = currentSessionId
                  /\ InFlight(tasks', "approve_clear_fail", 0)
                       = InFlight(tasks, "approve_clear_fail", 0) + 1
    /\ ApproveCleared(t) =>
          /\ currentSessionId' = currentSessionId
          /\ visible' = IF t.pc = "approve_clear_ok" THEN "sessionSection"
                        ELSE "faceSection"
          /\ videoStream' = Null
          /\ ClearsInFlight(tasks') = ClearsInFlight(tasks) + 1

C3_ApprovalBranches == [][\A t \in TaskSet : C3_Step(t)]_vars

\* An approval succeeded: the handler has shown sessionSection with the session id
\* stored, the camera stopped and its last clear-face request in flight.
C3_Witness ==
    /\ visible = "sessionSection" /\ currentSessionId # Null
    /\ videoStream = Null
    /\ ClearsInFlight(tasks) >= 1

\* C4: endSessionBtn sends end-session only for a non-null currentSessionId the user
\* confirmed, carrying that id; on success currentSessionId becomes null and
\* introSection is shown, on any failure neither changes; and no end-session request
\* is sent for an id whose end was acknowledged.
SessionIds == 1..MaxSessions

C4_Step ==
    /\ \A id \in SessionIds \cup { Null } :
          InFlight(tasks', "end_fetch", id) > InFlight(tasks, "end_fetch", id) =>
             /\ id # Null /\ id = currentSessionId
             /\ id \notin acked
             /\ EndSessionClick(TRUE)
    /\ EndSessionClick(FALSE) => tasks' = tasks
    /\ EndSessionClick(TRUE) /\ currentSessionId # Null =>
          InFlight(tasks', "end_fetch", currentSessionId)
             = InFlight(tasks, "end_fetch", currentSessionId) + 1
    /\ \A t \in TaskSet : EndAnswered(t) =>
          IF t.st = "ok"
          THEN currentSessionId' = Null /\ visible' = "introSection"
          ELSE currentSessionId' = currentSessionId /\ visible' = visible

C4_EndSession == [][C4_Step]_vars

\* A session was ended and acknowledged, and a later approval opened another one.
C4_Witness ==
    /\ acked # {}
    /\ currentSessionId # Null /\ currentSessionId \notin acked
    /\ visible = "sessionSection"

\* C5: no capture is registered twice: for every capture, at most one register-entry
\* request is answered with success.
C5_OneRegistrationPerCapture ==
    \A n \in 1..MaxCaptures : CopiesIn(n, registered) <= 1

\* The form was submitted twice for one capture before an answer came: one request
\* succeeded and the other was refused.
C5_Witness ==
    /\ registered # EmptyBag
    /\ \E t \in TaskSet : t.pc = "register_fetch" /\ t.st = "ok"
    /\ \E t \in TaskSet : t.pc = "register_fetch" /\ t.st \in { "fail", "err" }

\* C6: on a network that delivers and answers every request, whenever no request is
\* in flight and adminPanelSection is not visible, the backend's admin flag is
\* logged-out.
C6_LoginEndsWithPanel ==
    Quiescent /\ visible # "adminPanelSection" => ~adminAuth

\* The admin logged in, left the panel, and every request has been answered.
C6_Witness ==
    /\ everAuth /\ Quiescent
    /\ visible \notin { "adminPanelSection", "adminLoginSection" }

\* C7: showSection(s) sends an admin-logout request exactly when adminPanelSection is
\* the visible section and s is another section.
C7_LogoutOnLeavingPanel ==
    \A s \in mainSections :
        LogoutsInFlight(showSection(Client, s).tasks)
          = LogoutsInFlight(tasks)
              + (IF visible = "adminPanelSection" /\ s # "adminPanelSection"
                 THEN 1 ELSE 0)

\* A nav button was clicked on the admin panel: its logout request is in flight.
C7_Witness ==
    /\ visible \in { "introSection", "faceSection" }
    /\ LogoutsInFlight(tasks) = 1
    /\ adminAuth

\* C8: whenever adminPanelSection is visible and no request is in flight, the
\* backend's admin flag is logged-in.
C8_PanelIsAuthorized ==
    Quiescent /\ visible = "adminPanelSection" => adminAuth

\* C9: adminPanelSection becomes visible only in the login handler, after an OK
\* success:true answer to /api/admin/login and after loadAdminData ended; on any
\* other answer the login handler leaves the visible section alone and sends no
\* request.
LoadEnds(t) ==
    \/ LoadUsersAnswered(t) /\ t.st # "ok"
    \/ LoadLogsAnswered(t)

C9_Step ==
    /\ visible # "adminPanelSection" /\ visible' = "adminPanelSection" =>
          \E t \in TaskSet : t.arg = 1 /\ LoadEnds(t)
    /\ InFlight(tasks', "load_users", 1) > InFlight(tasks, "load_users", 1) =>
          \E t \in TaskSet : t.st = "ok" /\ LoginAnswered(t)
    /\ InFlight(tasks', "load_logs", 1) > InFlight(tasks, "load_logs", 1) =>
          \E t \in TaskSet : t.arg = 1 /\ t.st = "ok" /\ LoadUsersAnswered(t)
    /\ \A t \in TaskSet : LoginAnswered(t) /\ t.st # "ok" =>
          /\ visible' = visible
          /\ tasks' = tasks (-) SetToBag({ t })

C9_PanelOnlyAfterLogin == [][C9_Step]_vars

\* The login succeeded, loadAdminData ended and the panel is shown.
C9_Witness == visible = "adminPanelSection" /\ everAuth /\ Quiescent

\* C10: when capture-face answers success:false or a non-OK status, or the fetch
\* throws, the capture handler nulls capturedFaceData and starts retake, which sends
\* a clear-face request and, once answered, restores the camera view with
\* capturedFaceData null; proceedToInfoBtn opens nothing while capturedFaceData is
\* null, and only captureBtn makes it non-null.
C10_Step ==
    /\ \A t \in TaskSet : CaptureAnswered(t) /\ t.st # "ok" =>
          /\ capturedFaceData' = Null
          /\ InFlight(tasks', "retake_clear", 0) = InFlight(tasks, "retake_clear", 0) + 1
    /\ \A t \in TaskSet : RetakeCleared(t) =>
          /\ capturedFaceData' = Null
          /\ ~cam'.preview /\ cam'.video /\ cam'.captureBtn /\ cam'.cancelBtn
    /\ ProceedToInfoClick /\ capturedFaceData = Null =>
          visible' = visible /\ form' = form
    /\ capturedFaceData = Null /\ capturedFaceData' # Null => CaptureClick

C10_RejectedCaptureDiscarded == [][C10_Step]_vars

\* A capture was rejected: the face is dropped, the preview is still up and the
\* retake's clear-face request is in flight.
C10_Witness ==
    /\ visible = "cameraSection" /\ cam.preview
    /\ capturedFaceData = Null
    /\ InFlight(tasks, "retake_clear", 0) >= 1


\* C11: proceedToInfoBtn with a captured face shows addInfoSection (and nothing else),
\* stops the camera, keeps capturedFaceData and sends no request; with no captured
\* face it changes nothing.  showSection to addInfoSection, cameraSection or
\* approveCameraSection sends no clear-face request and keeps capturedFaceData.
C11_ProceedKeepsFace ==
    /\ capturedFaceData # Null =>
          LET c == proceedToInfo(Client)
          IN  /\ c.visible = "addInfoSection"
              /\ c.videoStream = Null
              /\ c.capturedFaceData = capturedFaceData
              /\ c.tasks = tasks
    /\ capturedFaceData = Null => proceedToInfo(Client) = Client
    /\ \A s \in { x \in mainSections : KeepsFace(x) } :
          LET c == showSection(Client, s)
          IN  /\ ClearsInFlight(c.tasks) = ClearsInFlight(tasks)
              /\ c.capturedFaceData = capturedFaceData

\* The user proceeded with an accepted face: the form is up, the camera is stopped, the
\* client still holds the face and the backend still holds it as Pending-Capture.
C11_Witness ==
    /\ visible = "addInfoSection" /\ form.addInfoForm
    /\ videoStream = Null
    /\ capturedFaceData # Null /\ kept = capturedFaceData /\ pending = capturedFaceData
    /\ Quiescent


\* C12: the registration form is open only for a face the backend has accepted: while
\* addInfoSection shows the form for the face in capturedFaceData, the capture-face
\* request for that face is neither still in flight nor answered with a failure.
C12_FormOnlyForAcceptedFace ==
    visible = "addInfoSection" /\ form.addInfoForm /\ capturedFaceData # Null =>
       \A t \in TaskSet :
           t.pc = "capture_fetch" /\ t.arg = capturedFaceData => t.st = "ok"


\* The approve-face answers the client has not handled yet, by the session they carry.
Unhandled(id) ==
    \E t \in TaskSet :
        t.pc \in { "approve_fetch", "approve_json" } /\ t.st = "ok" /\ t.arg = id

\* C13: on a network that loses no answer, every Open session whose approve-face
\* answer the client has handled is the one in currentSessionId.
C13_NoOrphanedSession ==
    \A id \in sessOpen : ~Unhandled(id) => currentSessionId = id


\* C14: whenever sessionSection is the visible section, currentSessionId is non-null.
C14_SessionScreenHasSession ==
    visible = "sessionSection" => currentSessionId # Null


\* C15: the camera runs only on the camera screens: videoStream is non-null only if the
\* visible section is cameraSection or approveCameraSection.
C15_CameraOnlyOnCameraScreens ==
    videoStream # Null => visible \in { "cameraSection", "approveCameraSection" }

\* C16: no leaked camera stream: every stream obtained from getUserMedia whose tracks
\* have not been stopped is the one referenced by videoStream.
C16_NoLeakedStream ==
    ~leaked

=============================================================================
